---- MODULE Spec2Model ----
(***************************************************************************)
(* The MySQL mode server of cluster/vigil: the admission and lifecycle     *)
(* supervisor in src/cluster/vigil/vigil/modes/mysql/server.go.            *)
(*                                                                         *)
(* Processes: one caller of Run, NumClosers callers of Close, any number   *)
(* of SetClusterCertificate calls, one serve goroutine per successful Run  *)
(* and one handleConn goroutine per accepted connection.  Every action is  *)
(* one atomic step of the Go code between two points where another         *)
(* goroutine can observe or change the shared Server fields.               *)
(***************************************************************************)
EXTENDS Integers, Sequences, FiniteSets, TLC

\* ------------------------------------------------------------------ bounds
NumConns == 2        \* client connections that ever reach the listener
NumClosers == 2      \* goroutines that call Close (each once)
MaxListeners == 2    \* listeners net.Listen can ever hand out
MaxAcceptErrs == 2   \* accept errors counted in a row before the count saturates

Conns == 1..NumConns
Closers == 1..NumClosers
Certs == {"crtA", "crtB"}   \* cluster certificate secrets
Gens == 1..MaxListeners
NoCrt == "nil"       \* (*corev1.Secret)(nil)
Reasons == {"policy_match", "default_deny"}

VARIABLES
  lis,          \* s.lis: 0 is the nil interface, g > 0 the listener of generation g
  lisOpen,      \* the listeners that are bound and not yet closed
  lisGen,       \* listeners created so far
  cancelFn,     \* s.cancelFn: 0 is nil, g > 0 cancels the context of generation g
  ctxDone,      \* ctxDone[g]: the context handed to serve goroutine g is cancelled
  doneCloses,   \* how many times close(s.doneComplete) has run
  dctxMap,      \* s.dctxMap.dctxMap: the ids registered
  isClosed,     \* s.isClosed
  mu,           \* s.mu: 0 when free, else the closer that holds it
  crt,          \* s.crtMan.crt
  tlsCfg,       \* s.tlsCfgMan.tlsCfg: "nil" or "set"
  isTLS,        \* svc.Spec.IsTLS of the cached Service
  crashed,      \* an unrecovered panic has ended the process
  runPc,        \* where the caller of Run stands
  runGen,       \* the listener the running Run call has bound (0: none)
  runCrt,       \* the secret setTLSConfig fetched and has not yet stored
  runLast,      \* what the last Run call returned: "none" (no call yet), "ok", "err"
  lastListen,   \* how net.Listen ended in the latest Run call: "none", "ok", "fail"
  lastLookup,   \* how GetSecret ended in the latest Run call: "none" (not called),
                \* "found", "notFound", "error"
  closePc,      \* closePc[k]: where closer k stands
  tornDown,     \* the closers that went past the isClosed check
  regAtClose,   \* the registry as it was when the teardown began
  drained,      \* ids on which the drain of Close called close()
  drainErrs,    \* ids whose close() in the drain reported a failure
  regMu,        \* s.dctxMap.mu: 0 when free, else the closer whose drain holds it
  servePc,      \* servePc[g]: where serve goroutine g stands
  serveLis,     \* serveLis[g]: the listener goroutine g is blocked on in Accept
  acceptErrs,   \* acceptErrs[g]: accept errors in a row of goroutine g (saturating)
  afterErrs,    \* most accept errors in a row that a successful Accept came after
  exitErr,      \* exitErr[g]: the accept error goroutine g returned on: "none",
                \* "timeout", "other"
  lastSetCrt,   \* argument of the last SetClusterCertificate that returned ("none": never)
  hPc,          \* hPc[c]: where handleConn of connection c stands
  verdict,      \* verdict[c]: what AuthenticateAndAuthorize returned for c
  hsCrt,        \* hsCrt[c]: what GetCertificate read for c ("unread": not invoked)
  accessLog,    \* accessLog[c]: the entries handleConn of c emitted, in order
  cClosed,      \* cClosed[c]: c.Close() was called
  dsClosed,     \* dsClosed[c]: downstreamConn.Close() was called
  handshook,    \* handshook[c]: getDownstreamConn was entered
  connected,    \* connected[c]: dctx.connect was called
  served,       \* served[c]: dctx.serve was entered
  deferCloses   \* deferCloses[c]: deferred dctx.close() calls of handleConn

srvVars == <<lis, lisOpen, lisGen, cancelFn, ctxDone, doneCloses, dctxMap,
             isClosed, mu, crt, tlsCfg, isTLS, crashed>>
runVars == <<runPc, runGen, runCrt, runLast, lastListen, lastLookup>>
closeVars == <<closePc, tornDown, regAtClose, drained, drainErrs, regMu>>
serveVars == <<servePc, serveLis, acceptErrs, afterErrs, exitErr>>
connVars == <<hPc, verdict, hsCrt, accessLog, cClosed, dsClosed, handshook,
              connected, served, deferCloses>>
vars == <<srvVars, runVars, closeVars, serveVars, connVars, lastSetCrt>>

\* ------------------------------------------------------------ construction
NoVerdict == [err |-> FALSE, authn |-> FALSE, authz |-> FALSE, reason |-> "", got |-> FALSE]

\* New: every field zero except doneComplete and the empty registry.
Init ==
  /\ lis = 0 /\ lisOpen = {} /\ lisGen = 0
  /\ cancelFn = 0
  /\ ctxDone = [g \in Gens |-> FALSE]
  /\ doneCloses = 0
  /\ dctxMap = {}
  /\ isClosed = FALSE
  /\ mu = 0
  /\ crt = NoCrt
  /\ tlsCfg = "nil"
  /\ isTLS \in BOOLEAN
  /\ crashed = FALSE
  /\ runPc = "idle" /\ runGen = 0 /\ runCrt = NoCrt /\ runLast = "none"
  /\ lastListen = "none" /\ lastLookup = "none"
  /\ closePc = [k \in Closers |-> "idle"]
  /\ tornDown = {} /\ regAtClose = {} /\ drained = {} /\ drainErrs = {}
  /\ regMu = 0
  /\ servePc = [g \in Gens |-> "none"]
  /\ serveLis = [g \in Gens |-> 0]
  /\ acceptErrs = [g \in Gens |-> 0]
  /\ afterErrs = 0
  /\ exitErr = [g \in Gens |-> "none"]
  /\ lastSetCrt = "none"
  /\ hPc = [c \in Conns |-> "idle"]
  /\ verdict = [c \in Conns |-> NoVerdict]
  /\ hsCrt = [c \in Conns |-> "unread"]
  /\ accessLog = [c \in Conns |-> <<>>]
  /\ cClosed = [c \in Conns |-> FALSE]
  /\ dsClosed = [c \in Conns |-> FALSE]
  /\ handshook = [c \in Conns |-> FALSE]
  /\ connected = [c \in Conns |-> FALSE]
  /\ served = [c \in Conns |-> FALSE]
  /\ deferCloses = [c \in Conns |-> 0]

\* ------------------------------------------------------- SetClusterCertificate
\* Lines 94-99: the write lock is taken, the holder overwritten, nil returned.
\* The lock is free whenever this runs: every other holder takes and releases
\* it inside one step (RunSetCrt, GetCertificate).
SetClusterCertificate(x) ==
  /\ ~crashed
  /\ crt' = x
  /\ lastSetCrt' = x
  /\ UNCHANGED <<lis, lisOpen, lisGen, cancelFn, ctxDone, doneCloses, dctxMap,
                 isClosed, mu, tlsCfg, isTLS, crashed>>
  /\ UNCHANGED <<runVars, closeVars, serveVars, connVars>>

\* ------------------------------------------------------------------- Run
\* The port is free when no listener of this server holds it; net.Listen may
\* also fail for reasons outside the server (ok = FALSE).
PortFree == lisOpen = {}

\* The test of line 284 without its NotFound exemption.
LookupFailsOnAnyError(r) == r \in {"error", "notFound"}

\* What Run returns when the secret lookup of setTLSConfig ends with `r`
\* (line 284): only an error that is not NotFound is returned.
LookupFails(r) == r = "error"

\* Lines 315-322: s.lis, err = net.Listen(...); the error is returned with
\* s.lis overwritten by the nil listener; otherwise the IsTLS branch is taken.
RunListen ==
  /\ ~crashed
  /\ runPc = "idle"
  /\ \E ok \in BOOLEAN :
       IF ok
         THEN /\ PortFree
              /\ lisGen < MaxListeners
              /\ lisGen' = lisGen + 1
              /\ lis' = lisGen + 1
              /\ lisOpen' = lisOpen \cup {lisGen + 1}
              /\ runGen' = lisGen + 1
              /\ runPc' = IF isTLS THEN "getSecret" ELSE "start"
              /\ lastListen' = "ok"
              /\ UNCHANGED runLast
         ELSE /\ lis' = 0
              /\ runLast' = "err"
              /\ lastListen' = "fail"
              /\ UNCHANGED <<lisOpen, lisGen, runGen, runPc>>
  /\ lastLookup' = "none"
  /\ UNCHANGED <<cancelFn, ctxDone, doneCloses, dctxMap, isClosed, mu, crt,
                 tlsCfg, isTLS, crashed, runCrt>>
  /\ UNCHANGED <<closeVars, serveVars, connVars, lastSetCrt>>

\* Lines 283-286: GetSecret returns a secret, NotFound (crt is nil) or another
\* error, which setTLSConfig and then Run (line 324) return.
RunGetSecret ==
  /\ ~crashed
  /\ runPc = "getSecret"
  /\ \E r \in Certs \cup {"notFound", "error"} :
       /\ lastLookup' = IF r \in Certs THEN "found" ELSE r
       /\ IF LookupFails(r)
            THEN /\ runPc' = "idle"
                 /\ runLast' = "err"
                 /\ runGen' = 0
                 /\ UNCHANGED runCrt
            ELSE /\ runPc' = "setCrt"
                 /\ runCrt' = IF r = "notFound" THEN NoCrt ELSE r
                 /\ UNCHANGED <<runLast, runGen>>
  /\ UNCHANGED lastListen
  /\ UNCHANGED <<srvVars, closeVars, serveVars, connVars, lastSetCrt>>

\* Lines 288-290: the fetched secret is stored in the identity holder.
RunSetCrt ==
  /\ ~crashed
  /\ runPc = "setCrt"
  /\ crt' = runCrt
  /\ runPc' = "setCfg"
  /\ UNCHANGED <<lis, lisOpen, lisGen, cancelFn, ctxDone, doneCloses, dctxMap,
                 isClosed, mu, tlsCfg, isTLS, crashed>>
  /\ UNCHANGED <<runGen, runCrt, runLast, lastListen, lastLookup>>
  /\ UNCHANGED <<closeVars, serveVars, connVars, lastSetCrt>>

\* getDownstreamConn holds the read lock of tlsCfgMan from its entry, through
\* the certificate callback of its handshake, until it returns (lines
\* 264-271); GetCertificate is the step that enters it.
HoldsCfgRLock(c) == hPc[c] = "handshake" /\ hsCrt[c] # "unread"

\* Lines 292-306: the configuration with the GetCertificate closure is stored
\* under the write lock, which waits for the readers.
RunSetCfg ==
  /\ ~crashed
  /\ runPc = "setCfg"
  /\ \A c \in Conns : ~HoldsCfgRLock(c)
  /\ tlsCfg' = "set"
  /\ runPc' = "start"
  /\ UNCHANGED <<lis, lisOpen, lisGen, cancelFn, ctxDone, doneCloses, dctxMap,
                 isClosed, mu, crt, isTLS, crashed>>
  /\ UNCHANGED <<runGen, runCrt, runLast, lastListen, lastLookup>>
  /\ UNCHANGED <<closeVars, serveVars, connVars, lastSetCrt>>

\* Lines 328-335: the cancellable context is made, s.cancelFn set, the serve
\* goroutine started and nil returned.
RunStart ==
  /\ ~crashed
  /\ runPc = "start"
  /\ cancelFn' = runGen
  /\ servePc' = [servePc EXCEPT ![runGen] = "loop"]
  /\ runPc' = "idle"
  /\ runLast' = "ok"
  /\ runGen' = 0
  /\ UNCHANGED <<lis, lisOpen, lisGen, ctxDone, doneCloses, dctxMap, isClosed,
                 mu, crt, tlsCfg, isTLS, crashed>>
  /\ UNCHANGED <<runCrt, lastListen, lastLookup, serveLis, acceptErrs, afterErrs,
                 exitErr>>
  /\ UNCHANGED <<closeVars, connVars, lastSetCrt>>

\* ----------------------------------------------------------------- Close
\* The test of line 128 left out: every call tears down.
CloseNeverNoOp == FALSE

\* Line 128: a call that finds the flag set returns nil at once.
CloseIsNoOp == isClosed

\* A teardown that returns at the first close() that fails.
DrainAbortsOnError(errs) == errs # {}

\* Whether the sessions' close() results stop the teardown: they are not even
\* looked at (line 138).
DrainAborts(errs) == FALSE

\* A drain that ranges over nothing.
DrainNothing == {}

\* Line 137: the sessions the drain ranges over.
DrainTargets == dctxMap

\* Lines 126-133: the mutex is taken and the flag tested; a later call returns
\* nil and releases the mutex; the first one sets the flag and calls
\* s.cancelFn, which is a nil func (a panic) until a Run has stored it.
CloseBegin(k) ==
  /\ ~crashed
  /\ closePc[k] = "idle"
  /\ mu = 0
  /\ IF CloseIsNoOp
       THEN /\ closePc' = [closePc EXCEPT ![k] = "returned"]
            /\ UNCHANGED <<mu, isClosed, ctxDone, crashed, tornDown, regAtClose>>
       ELSE /\ isClosed' = TRUE
            /\ tornDown' = tornDown \cup {k}
            /\ regAtClose' = dctxMap
            /\ IF cancelFn = 0
                 THEN /\ crashed' = TRUE
                      /\ closePc' = [closePc EXCEPT ![k] = "panicked"]
                      /\ UNCHANGED <<mu, ctxDone>>
                 ELSE /\ ctxDone' = [ctxDone EXCEPT ![cancelFn] = TRUE]
                      /\ mu' = k
                      /\ closePc' = [closePc EXCEPT ![k] = "drain"]
                      /\ UNCHANGED crashed
  /\ UNCHANGED <<lis, lisOpen, lisGen, cancelFn, doneCloses, dctxMap, crt,
                 tlsCfg, isTLS, drained, drainErrs, regMu>>
  /\ UNCHANGED <<runVars, serveVars, connVars, lastSetCrt>>

\* Line 136: the registry mutex is taken; a handler that inserts or deletes
\* (lines 227-229, 239-241) takes and releases it inside one step.
CloseDrainLock(k) ==
  /\ ~crashed
  /\ closePc[k] = "drain"
  /\ regMu = 0
  /\ regMu' = k
  /\ closePc' = [closePc EXCEPT ![k] = "draining"]
  /\ UNCHANGED <<srvVars, runVars, serveVars, connVars, lastSetCrt, tornDown,
                 regAtClose, drained, drainErrs>>

\* A drain that returns with the registry mutex held.
RegMuKept(k) == k

\* Line 140: the registry mutex after the drain.
RegMuAfterDrain(k) == 0

\* Lines 137-140: with the registry mutex held, close() is called on every
\* session registered; what a close() returns is dropped; the mutex is
\* released.
CloseDrain(k) ==
  /\ ~crashed
  /\ closePc[k] = "draining"
  /\ \E errs \in SUBSET DrainTargets :
       /\ drained' = drained \cup DrainTargets
       /\ drainErrs' = drainErrs \cup errs
       /\ closePc' = [closePc EXCEPT ![k] =
                        IF DrainAborts(errs) THEN "aborted" ELSE "lis"]
  /\ regMu' = RegMuAfterDrain(k)
  /\ UNCHANGED <<srvVars, runVars, serveVars, connVars, lastSetCrt, tornDown,
                 regAtClose>>

\* Lines 142-144: the listener s.lis names now, if any, is closed.
CloseLis(k) ==
  /\ ~crashed
  /\ closePc[k] = "lis"
  /\ lisOpen' = IF lis # 0 THEN lisOpen \ {lis} ELSE lisOpen
  /\ closePc' = [closePc EXCEPT ![k] = "signal"]
  /\ UNCHANGED <<lis, lisGen, cancelFn, ctxDone, doneCloses, dctxMap, isClosed,
                 mu, crt, tlsCfg, isTLS, crashed>>
  /\ UNCHANGED <<runVars, serveVars, connVars, lastSetCrt, tornDown,
                 regAtClose, drained, drainErrs, regMu>>

\* Lines 147-149: close(s.doneComplete), return nil, the deferred unlock.
\* Closing a closed channel panics.
CloseSignal(k) ==
  /\ ~crashed
  /\ closePc[k] = "signal"
  /\ doneCloses' = doneCloses + 1
  /\ crashed' = (doneCloses >= 1)
  /\ mu' = 0
  /\ closePc' = [closePc EXCEPT ![k] =
                   IF doneCloses >= 1 THEN "panicked" ELSE "returned"]
  /\ UNCHANGED <<lis, lisOpen, lisGen, cancelFn, ctxDone, dctxMap, isClosed,
                 crt, tlsCfg, isTLS>>
  /\ UNCHANGED <<runVars, serveVars, connVars, lastSetCrt, tornDown,
                 regAtClose, drained, drainErrs, regMu>>

\* ----------------------------------------------------------------- serve
\* Line 342, the call: s.lis is read (a nil listener panics) and the goroutine
\* blocks in Accept on that listener.
ServeCall(g) ==
  /\ ~crashed
  /\ servePc[g] = "loop"
  /\ IF lis = 0
       THEN /\ servePc' = [servePc EXCEPT ![g] = "panicked"]
            /\ crashed' = TRUE
            /\ UNCHANGED serveLis
       ELSE /\ servePc' = [servePc EXCEPT ![g] = "accept"]
            /\ serveLis' = [serveLis EXCEPT ![g] = lis]
            /\ UNCHANGED crashed
  /\ UNCHANGED <<lis, lisOpen, lisGen, cancelFn, ctxDone, doneCloses, dctxMap,
                 isClosed, mu, crt, tlsCfg, isTLS, acceptErrs, afterErrs, exitErr>>
  /\ UNCHANGED <<runVars, closeVars, connVars, lastSetCrt>>

\* The error count of the accept loop, kept small.
Bump(n) == IF n < MaxAcceptErrs THEN n + 1 ELSE n

\* An accept loop that gives up on the first error that is no timeout.
ExitsOnAnyError(timeout, done) == ~timeout

\* An accept loop that returns on a timeout once the context is cancelled and
\* on nothing else.
ExitsOnlyOnTimeout(timeout, done) == timeout /\ done

\* Lines 346-359: what the loop does with an accept error.  A timeout is
\* retried whatever the context says; any other error ends the loop exactly
\* when the context is cancelled.
ExitsOnError(timeout, done) == ~timeout /\ done

\* Lines 344-359: Accept returned an error: a timeout, or another error (the
\* only kind a closed listener gives).
AcceptError(g) ==
  /\ ~crashed
  /\ servePc[g] = "accept"
  /\ \E timeout \in BOOLEAN :
       /\ timeout => serveLis[g] \in lisOpen
       /\ IF ExitsOnError(timeout, ctxDone[g])
            THEN /\ servePc' = [servePc EXCEPT ![g] = "exited"]
                 /\ exitErr' = [exitErr EXCEPT ![g] =
                                  IF timeout THEN "timeout" ELSE "other"]
                 /\ UNCHANGED acceptErrs
            ELSE /\ servePc' = [servePc EXCEPT ![g] = "loop"]
                 /\ acceptErrs' = [acceptErrs EXCEPT ![g] = Bump(@)]
                 /\ UNCHANGED exitErr
  /\ UNCHANGED <<srvVars, runVars, closeVars, connVars, lastSetCrt, serveLis,
                 afterErrs>>

\* The connection the next successful Accept returns: clients arrive in order.
Arriving == {c \in Conns : hPc[c] = "idle" /\ \A d \in Conns : d < c => hPc[d] # "idle"}

\* Lines 342 and 363: Accept returned a connection; go s.handleConn(ctx, conn)
\* and back to the top of the loop.
AcceptConn(g) ==
  /\ ~crashed
  /\ servePc[g] = "accept"
  /\ serveLis[g] \in lisOpen
  /\ \E c \in Arriving :
       hPc' = [hPc EXCEPT ![c] = "auth"]
  /\ afterErrs' = IF acceptErrs[g] > afterErrs THEN acceptErrs[g] ELSE afterErrs
  /\ servePc' = [servePc EXCEPT ![g] = "loop"]
  /\ acceptErrs' = [acceptErrs EXCEPT ![g] = 0]
  /\ UNCHANGED <<srvVars, runVars, closeVars, lastSetCrt, serveLis, exitErr>>
  /\ UNCHANGED <<verdict, hsCrt, accessLog, cClosed, dsClosed, handshook,
                 connected, served, deferCloses>>

\* ------------------------------------------------------------ handleConn
\* newDctx gives every session an id of its own (line 201).
DctxId(c) == c

\* What AuthenticateAndAuthorize can return (line 163): an error, or a response
\* with any combination of the two flags and a decision reason.
Verdicts ==
  {[err |-> TRUE, authn |-> FALSE, authz |-> FALSE, reason |-> "", got |-> TRUE]}
  \cup {[err |-> FALSE, authn |-> a, authz |-> z, reason |-> r, got |-> TRUE] :
          a \in BOOLEAN, z \in BOOLEAN, r \in Reasons}

\* A slip in the test of line 172: the authorized verdict is turned away.
DeniedSlip(v) == v.authn /\ v.authz

\* Line 172: the one verdict the handler turns away after a successful call.
Denied(v) == v.authn /\ ~v.authz

\* Lines 173-183: the entry logged for a denied connection.
DeniedEntry(v) ==
  [type |-> "SESSION_START", authn |-> TRUE, authz |-> FALSE, id |-> 0,
   reason |-> v.reason]

\* Lines 210-222: the entry logged once the upstream is connected.
StartEntry(c, v) ==
  [type |-> "SESSION_START", authn |-> TRUE, authz |-> TRUE, id |-> DctxId(c),
   reason |-> v.reason]

\* A session-end entry that leaves the connection id out.
EndEntryNoId(c) ==
  [type |-> "SESSION_END", authn |-> TRUE, authz |-> TRUE, id |-> 0,
   reason |-> ""]

\* Lines 245-256: the entry logged after the session is unregistered.
EndEntry(c) ==
  [type |-> "SESSION_END", authn |-> TRUE, authz |-> TRUE, id |-> DctxId(c),
   reason |-> ""]

\* Lines 156-189: the cached Service is read (nil: close and return), the
\* policy client is called, and the connection is closed on an error or on a
\* denied verdict (which is logged first); every other response goes on.
HandleAuth(c) ==
  /\ ~crashed
  /\ hPc[c] = "auth"
  /\ \E svcNil \in BOOLEAN, v \in Verdicts :
       IF svcNil
         THEN /\ cClosed' = [cClosed EXCEPT ![c] = TRUE]
              /\ hPc' = [hPc EXCEPT ![c] = "done"]
              /\ UNCHANGED <<verdict, accessLog>>
         ELSE /\ verdict' = [verdict EXCEPT ![c] = v]
              /\ IF v.err
                   THEN /\ cClosed' = [cClosed EXCEPT ![c] = TRUE]
                        /\ hPc' = [hPc EXCEPT ![c] = "done"]
                        /\ UNCHANGED accessLog
                   ELSE IF Denied(v)
                     THEN /\ accessLog' = [accessLog EXCEPT ![c] = Append(@, DeniedEntry(v))]
                          /\ cClosed' = [cClosed EXCEPT ![c] = TRUE]
                          /\ hPc' = [hPc EXCEPT ![c] = "done"]
                     ELSE /\ hPc' = [hPc EXCEPT ![c] = "handshake"]
                          /\ UNCHANGED <<accessLog, cClosed>>
  /\ UNCHANGED <<srvVars, runVars, closeVars, serveVars, lastSetCrt>>
  /\ UNCHANGED <<hsCrt, dsClosed, handshook, connected, served, deferCloses>>

\* Lines 297-304, called by the TLS handshake inside getDownstreamConn (line
\* 271) when a configuration is installed: the holder is read under its read
\* lock; a nil holder gives (nil, nil).
GetCertificate(c) ==
  /\ ~crashed
  /\ hPc[c] = "handshake"
  /\ tlsCfg = "set"
  /\ hsCrt[c] = "unread"
  /\ hsCrt' = [hsCrt EXCEPT ![c] = crt]
  /\ handshook' = [handshook EXCEPT ![c] = TRUE]
  /\ UNCHANGED <<srvVars, runVars, closeVars, serveVars, lastSetCrt>>
  /\ UNCHANGED <<hPc, verdict, accessLog, cClosed, dsClosed, connected, served,
                 deferCloses>>

\* Lines 193-197: getDownstreamConn returns; on an error the socket is closed.
\* A handshake whose callback found no certificate cannot succeed.
HandshakeEnd(c) ==
  /\ ~crashed
  /\ hPc[c] = "handshake"
  /\ handshook' = [handshook EXCEPT ![c] = TRUE]
  /\ \E ok \in BOOLEAN :
       IF ok
         THEN /\ hsCrt[c] # NoCrt
              /\ hPc' = [hPc EXCEPT ![c] = "connect"]
              /\ UNCHANGED cClosed
         ELSE /\ cClosed' = [cClosed EXCEPT ![c] = TRUE]
              /\ hPc' = [hPc EXCEPT ![c] = "done"]
  /\ UNCHANGED <<srvVars, runVars, closeVars, serveVars, lastSetCrt>>
  /\ UNCHANGED <<verdict, hsCrt, accessLog, dsClosed, connected, served,
                 deferCloses>>

\* A handler that emits the session-start entry before it looks at the result
\* of dctx.connect.
LogBeforeConnect(ok, log, e) == Append(log, e)

\* Lines 202-224: the log of the connection after dctx.connect: the
\* session-start entry is emitted past the error return of line 206 only.
LogAfterConnect(ok, log, e) == IF ok THEN Append(log, e) ELSE log

\* Lines 201-224: dctx.connect; on an error both connections are closed;
\* otherwise the session-start entry is emitted.
Connect(c) ==
  /\ ~crashed
  /\ hPc[c] = "connect"
  /\ connected' = [connected EXCEPT ![c] = TRUE]
  /\ \E ok \in BOOLEAN :
       /\ accessLog' = [accessLog EXCEPT ![c] =
                          LogAfterConnect(ok, @, StartEntry(c, verdict[c]))]
       /\ IF ok
            THEN /\ hPc' = [hPc EXCEPT ![c] = "register"]
                 /\ UNCHANGED <<cClosed, dsClosed>>
            ELSE /\ dsClosed' = [dsClosed EXCEPT ![c] = TRUE]
                 /\ cClosed' = [cClosed EXCEPT ![c] = TRUE]
                 /\ hPc' = [hPc EXCEPT ![c] = "done"]
  /\ UNCHANGED <<srvVars, runVars, closeVars, serveVars, lastSetCrt>>
  /\ UNCHANGED <<verdict, hsCrt, handshook, served, deferCloses>>

\* Lines 226-233: the session is put in the registry under its mutex, and
\* dctx.serve is called.
Register(c) ==
  /\ ~crashed
  /\ hPc[c] = "register"
  /\ regMu = 0
  /\ dctxMap' = dctxMap \cup {DctxId(c)}
  /\ served' = [served EXCEPT ![c] = TRUE]
  /\ hPc' = [hPc EXCEPT ![c] = "serve"]
  /\ UNCHANGED <<lis, lisOpen, lisGen, cancelFn, ctxDone, doneCloses, isClosed,
                 mu, crt, tlsCfg, isTLS, crashed>>
  /\ UNCHANGED <<runVars, closeVars, serveVars, lastSetCrt>>
  /\ UNCHANGED <<verdict, hsCrt, accessLog, cClosed, dsClosed, handshook,
                 connected, deferCloses>>

\* Line 233: dctx.serve returns, whatever ended the session.
ServeReturn(c) ==
  /\ ~crashed
  /\ hPc[c] = "serve"
  /\ hPc' = [hPc EXCEPT ![c] = "unregister"]
  /\ UNCHANGED <<srvVars, runVars, closeVars, serveVars, lastSetCrt>>
  /\ UNCHANGED <<verdict, hsCrt, accessLog, cClosed, dsClosed, handshook,
                 connected, served, deferCloses>>

\* A handler that leaves its entry in the registry.
DeletesNothing(c) == {}

\* Line 240: the key handleConn deletes from the registry.
Deleted(c) == {DctxId(c)}

\* Lines 238-242: the session is deleted from the registry under its mutex.
Unregister(c) ==
  /\ ~crashed
  /\ hPc[c] = "unregister"
  /\ regMu = 0
  /\ dctxMap' = dctxMap \ Deleted(c)
  /\ hPc' = [hPc EXCEPT ![c] = "logEnd"]
  /\ UNCHANGED <<lis, lisOpen, lisGen, cancelFn, ctxDone, doneCloses, isClosed,
                 mu, crt, tlsCfg, isTLS, crashed>>
  /\ UNCHANGED <<runVars, closeVars, serveVars, lastSetCrt>>
  /\ UNCHANGED <<verdict, hsCrt, accessLog, cClosed, dsClosed, handshook,
                 connected, served, deferCloses>>

\* Lines 244-259: the session-end entry is emitted.
EmitEnd(c) ==
  /\ ~crashed
  /\ hPc[c] = "logEnd"
  /\ accessLog' = [accessLog EXCEPT ![c] = Append(@, EndEntry(c))]
  /\ hPc' = [hPc EXCEPT ![c] = "deferClose"]
  /\ UNCHANGED <<srvVars, runVars, closeVars, serveVars, lastSetCrt>>
  /\ UNCHANGED <<verdict, hsCrt, cClosed, dsClosed, handshook, connected,
                 served, deferCloses>>

\* A handler that defers nothing.
NoDeferredClose == 1 - 1

\* Line 236: handleConn defers dctx.close() once.
DeferredCloses == 1

\* Lines 236 and 261: the deferred dctx.close() runs as handleConn returns.
DeferClose(c) ==
  /\ ~crashed
  /\ hPc[c] = "deferClose"
  /\ deferCloses' = [deferCloses EXCEPT ![c] = @ + DeferredCloses]
  /\ hPc' = [hPc EXCEPT ![c] = "done"]
  /\ UNCHANGED <<srvVars, runVars, closeVars, serveVars, lastSetCrt>>
  /\ UNCHANGED <<verdict, hsCrt, accessLog, cClosed, dsClosed, handshook,
                 connected, served>>

\* ------------------------------------------------------------ the system
RunStep == RunListen \/ RunGetSecret \/ RunSetCrt \/ RunSetCfg \/ RunStart

CloseStep(k) ==
  \/ CloseBegin(k) \/ CloseDrainLock(k) \/ CloseDrain(k) \/ CloseLis(k)
  \/ CloseSignal(k)

ServeStep(g) == ServeCall(g) \/ AcceptError(g) \/ AcceptConn(g)

ConnStep(c) ==
  \/ HandleAuth(c) \/ GetCertificate(c) \/ HandshakeEnd(c) \/ Connect(c)
  \/ Register(c) \/ ServeReturn(c) \/ Unregister(c) \/ EmitEnd(c) \/ DeferClose(c)

\* An unrecovered panic ends the process: every action needs ~crashed.
Next ==
  \/ RunStep
  \/ \E x \in Certs \cup {NoCrt} : SetClusterCertificate(x)
  \/ \E k \in Closers : CloseStep(k)
  \/ \E g \in Gens : ServeStep(g)
  \/ \E c \in Conns : ConnStep(c)

Spec == Init /\ [][Next]_vars

\* --------------------------------------------------- narrower environments
\* The same server under an environment that exercises one part of it: the
\* actions are those above, with the caller's and the network's choices
\* restricted as stated.

\* Run is called once and the port can be bound.
StartsOnce(A) == runLast = "none" /\ A /\ runLast' # "err"

\* The accept loop only ever sees the error a closed listener gives once the
\* context is cancelled.
OnlyFinalError(g) == AcceptError(g) /\ servePc'[g] = "exited"

\* A plain-TCP service that is never closed, every policy verdict.
InitPlain == Init /\ ~isTLS

NextConn ==
  \/ StartsOnce(RunListen)
  \/ RunStart
  \/ \E g \in Gens : ServeCall(g) \/ AcceptConn(g)
  \/ \E c \in Conns :
       \/ HandleAuth(c) \/ HandshakeEnd(c) \/ Connect(c) \/ Register(c)
       \/ ServeReturn(c) \/ Unregister(c) \/ EmitEnd(c) \/ DeferClose(c)

SpecConn == InitPlain /\ [][NextConn]_vars

\* The policy client fails or allows, with one decision reason.
AllowedOrError(c) ==
  /\ HandleAuth(c)
  /\ verdict'[c].got
  /\ verdict'[c].err \/ (verdict'[c].authn /\ verdict'[c].authz)
  /\ verdict'[c].reason # "default_deny"

\* A plain-TCP service with every caller of Close.
NextClose ==
  \/ StartsOnce(RunListen)
  \/ RunStart
  \/ \E k \in Closers : CloseStep(k)
  \/ \E g \in Gens : ServeCall(g) \/ AcceptConn(g) \/ OnlyFinalError(g)
  \/ \E c \in Conns :
       \/ AllowedOrError(c) \/ HandshakeEnd(c) \/ Connect(c) \/ Register(c)
       \/ ServeReturn(c) \/ Unregister(c) \/ EmitEnd(c) \/ DeferClose(c)

SpecClose == InitPlain /\ [][NextClose]_vars

\* The drain of Close with every close() succeeding.
QuietDrain(k) == CloseDrain(k) /\ drainErrs' = drainErrs

QuietClose(k) ==
  \/ CloseBegin(k) \/ CloseDrainLock(k) \/ QuietDrain(k) \/ CloseLis(k)
  \/ CloseSignal(k)

\* A plain-TCP service whose accept loop sees every kind of accept error.
NextAccept ==
  \/ StartsOnce(RunListen)
  \/ RunStart
  \/ QuietClose(1)
  \/ \E g \in Gens : ServeStep(g)
  \/ \E c \in Conns :
       \/ AllowedOrError(c) \/ HandshakeEnd(c) \/ Connect(c) \/ Register(c)
       \/ ServeReturn(c) \/ Unregister(c) \/ EmitEnd(c) \/ DeferClose(c)

SpecAccept == InitPlain /\ [][NextAccept]_vars

\* The policy client fails.
AuthError(c) == HandleAuth(c) /\ verdict'[c].got /\ verdict'[c].err

\* The accept loop alone with one caller of Close: every connection is turned
\* away by the policy client.  The Go scheduler does not starve a runnable
\* goroutine, and an Accept on a closed listener returns: a serve goroutine
\* that can take a step eventually takes one.
NextLoop ==
  \/ StartsOnce(RunListen)
  \/ RunStart
  \/ QuietClose(1)
  \/ \E g \in Gens : ServeStep(g)
  \/ \E c \in Conns : AuthError(c)

FairLoop == \A g \in Gens : WF_vars(ServeStep(g))

SpecLoop == InitPlain /\ [][NextLoop]_vars /\ FairLoop

\* Run called any number of times, with or without TLS, every outcome of
\* net.Listen and of the secret lookup, and Close at any moment; every
\* connection is turned away by the policy client.
NextRun ==
  \/ RunStep
  \/ \E k \in Closers : QuietClose(k)
  \/ \E g \in Gens : ServeCall(g) \/ AcceptConn(g) \/ OnlyFinalError(g)
  \/ \E c \in Conns : AuthError(c)

SpecRun == Init /\ [][NextRun]_vars

\* A TLS service whose certificate is rotated at any moment.
InitTLS == Init /\ isTLS

NextCert ==
  \/ StartsOnce(RunListen)
  \/ RunGetSecret \/ RunSetCrt \/ RunSetCfg \/ RunStart
  \/ \E x \in Certs \cup {NoCrt} : SetClusterCertificate(x)
  \/ \E g \in Gens : ServeCall(g) \/ AcceptConn(g)
  \/ \E c \in Conns :
       \/ AllowedOrError(c) \/ GetCertificate(c) \/ HandshakeEnd(c)
       \/ Connect(c) \/ Register(c) \/ ServeReturn(c) \/ Unregister(c)
       \/ EmitEnd(c) \/ DeferClose(c)

SpecCert == InitTLS /\ [][NextCert]_vars

\* A TLS service with every user of the four locks: Close, handlers,
\* certificate rotation and the accept loop.
\* The secret store holds the cluster certificate, which is installed again
\* at any moment, the policy client allows every connection, and the
\* handshake and the upstream connect succeed if they end.
SecretFound == RunGetSecret /\ runCrt' = "crtA"

Rotates == SetClusterCertificate("crtA")

HandshakeOk(c) == HandshakeEnd(c) /\ hPc'[c] = "connect"

Allowed(c) == AllowedOrError(c) /\ ~verdict'[c].err

ConnectOk(c) == Connect(c) /\ hPc'[c] = "register"

NextLocks ==
  \/ StartsOnce(RunListen)
  \/ SecretFound \/ RunSetCrt \/ RunSetCfg \/ RunStart
  \/ Rotates
  \/ QuietClose(1)
  \/ \E g \in Gens : ServeCall(g) \/ AcceptConn(g) \/ OnlyFinalError(g)
  \/ \E c \in Conns :
       \/ Allowed(c) \/ GetCertificate(c) \/ HandshakeOk(c)
       \/ ConnectOk(c) \/ Register(c) \/ ServeReturn(c) \/ Unregister(c)
       \/ EmitEnd(c) \/ DeferClose(c)

SpecLocks == InitTLS /\ [][NextLocks]_vars

\* ------------------------------------------------------------- the claims
\* What handleConn did past the admission gate for connection c.
PastGate(c) ==
  handshook[c] \/ connected[c] \/ served[c] \/ DctxId(c) \in dctxMap

\* The policy call of c returned, and said authenticated and authorized.
Admitted(c) ==
  verdict[c].got /\ ~verdict[c].err /\ verdict[c].authn /\ verdict[c].authz

\* The policy call of c returned an error or a verdict that is not authenticated.
AuthFailed(c) == verdict[c].got /\ (verdict[c].err \/ ~verdict[c].authn)

\* The policy call of c returned authenticated but not authorized.
Unauthorized(c) ==
  verdict[c].got /\ ~verdict[c].err /\ verdict[c].authn /\ ~verdict[c].authz

\* C1: the downstream handshake, the upstream connect, the registration and
\* the serve loop of a connection happen only after its policy call returned
\* authenticated and authorized.
C1_AdmissionGate == \A c \in Conns : PastGate(c) => Admitted(c)

\* C2: a connection whose authentication failed is closed, has no access-log
\* entry and no registry entry.
C2_AuthFailureIsSilent ==
  \A c \in Conns :
    AuthFailed(c) =>
      /\ cClosed[c]
      /\ accessLog[c] = <<>>
      /\ DctxId(c) \notin dctxMap

\* C3: a connection whose verdict is authenticated but not authorized has
\* exactly one access-log entry (session-start, authenticated, not authorized,
\* with the decision reason), its socket is closed, and it never gets a
\* handshake, an upstream connect, a registry entry or a session-end entry.
C3_DeniedIsLoggedOnce ==
  \A c \in Conns :
    Unauthorized(c) =>
      /\ Len(accessLog[c]) = 1
      /\ accessLog[c][1].type = "SESSION_START"
      /\ accessLog[c][1].authn
      /\ ~accessLog[c][1].authz
      /\ accessLog[c][1].reason = verdict[c].reason
      /\ cClosed[c]
      /\ hPc[c] = "done"
      /\ ~PastGate(c)

\* C3 happens: two connections were denied, for different reasons.
C3_Witness ==
  \E c, d \in Conns :
    /\ Unauthorized(c) /\ Unauthorized(d)
    /\ verdict[c].reason # verdict[d].reason

\* The closer that performs the teardown went through all of Close.
TornDownAndReturned == \E k \in tornDown : closePc[k] = "returned"

\* C4: of any number of Close calls on a running server exactly one tears
\* down, every call returns nil, isClosed goes from false to true once, and
\* doneComplete is closed once and never a second time.
C4_CloseOnce ==
  /\ Cardinality(tornDown) <= 1
  /\ doneCloses <= 1
  /\ isClosed <=> tornDown # {}
  /\ \A k \in Closers : closePc[k] = "panicked" => cancelFn = 0
  /\ (\A k \in Closers : closePc[k] = "returned") =>
       /\ Cardinality(tornDown) = 1
       /\ doneCloses = 1
       /\ isClosed

\* C4 happens: every caller of Close has returned.
C4_Witness == \A k \in Closers : closePc[k] = "returned"

\* C5 as claimed: when the Close that tore down returns, no session that was
\* registered when it began is still in the registry.
C5_RegistryEmptyAtReturn ==
  TornDownAndReturned => regAtClose \cap dctxMap = {}

\* C5 as amended: when the Close that tore down returns, every session that
\* was registered when it began is out of the registry or had close() called
\* on it by the drain.
C5_ClosedOrRemovedAtReturn ==
  TornDownAndReturned => \A id \in regAtClose : id \notin dctxMap \/ id \in drained

\* C5 happens: Close has returned and a session registered before it began is
\* still registered.
C5_Witness == TornDownAndReturned /\ regAtClose \cap dctxMap # {}

\* C7: the Close that tears down cancels, then drains, then closes the
\* listener, then closes doneComplete; it goes through all four whatever the
\* sessions' close() calls return.
C7_TeardownOrder ==
  \A k \in tornDown :
    /\ closePc[k] # "panicked" => cancelFn # 0 /\ ctxDone[cancelFn]
    /\ drained # {} => closePc[k] \in {"lis", "signal", "returned"}
    /\ closePc[k] \in {"lis", "signal", "returned"} =>
         regAtClose \cap dctxMap \subseteq drained
    /\ (lis # 0 /\ lis \notin lisOpen) => closePc[k] \in {"signal", "returned"}
    /\ closePc[k] \in {"signal", "returned"} => lis \notin lisOpen
    /\ doneCloses >= 1 <=> closePc[k] = "returned"
    /\ closePc[k] \notin {"returned", "panicked"} => ENABLED CloseStep(k)

\* C7 happens: a close() of the drain failed and doneComplete is closed.
C7_Witness == TornDownAndReturned /\ drainErrs # {} /\ doneCloses = 1

\* The session-end entries of connection c.
EndsOf(c) ==
  {i \in 1..Len(accessLog[c]) : accessLog[c][i].type = "SESSION_END"}

\* C9: once the serve loop of a registered session returns, its registry entry
\* is removed, then one session-end entry with the id of its session-start
\* entry is emitted, then the session is closed; no session-end entry exists
\* without an authorized session-start entry of the same id before it.
C9_SessionEnd ==
  \A c \in Conns :
    /\ Cardinality(EndsOf(c)) <= 1
    /\ EndsOf(c) # {} =>
         /\ Len(accessLog[c]) = 2
         /\ accessLog[c][1].type = "SESSION_START"
         /\ accessLog[c][1].authn /\ accessLog[c][1].authz
         /\ accessLog[c][2].type = "SESSION_END"
         /\ accessLog[c][2].id = accessLog[c][1].id
         /\ accessLog[c][1].id = DctxId(c)
         /\ served[c]
         /\ DctxId(c) \notin dctxMap
    /\ deferCloses[c] <= 1
    /\ deferCloses[c] = 1 => EndsOf(c) # {}
    /\ (served[c] /\ hPc[c] = "unregister") => EndsOf(c) = {} /\ deferCloses[c] = 0
    /\ (served[c] /\ hPc[c] = "logEnd") => EndsOf(c) = {} /\ DctxId(c) \notin dctxMap
    /\ (served[c] /\ hPc[c] = "done") => EndsOf(c) # {} /\ deferCloses[c] = 1
    /\ hPc[c] \in {"unregister", "logEnd", "deferClose"} =>
         \/ ENABLED (Unregister(c) \/ EmitEnd(c) \/ DeferClose(c))
         \/ hPc[c] = "unregister" /\ regMu # 0 /\ ENABLED CloseDrain(regMu)

\* C9 happens: a session the drain of Close had closed has ended.
C9_Witness ==
  \E c \in Conns : served[c] /\ hPc[c] = "done" /\ DctxId(c) \in drained

\* C6: after SetClusterCertificate(X) has returned, every certificate callback
\* that begins before the next SetClusterCertificate reads X; a callback that
\* has read is not affected by a later rotation; with no certificate installed
\* the callback returns none.
C6_RotationVisible ==
  [][\A c \in Conns :
       /\ (hsCrt[c] = "unread" /\ hsCrt'[c] # "unread" /\ lastSetCrt # "none") =>
            hsCrt'[c] = lastSetCrt
       /\ (hsCrt[c] = "unread" /\ hsCrt'[c] # "unread" /\ crt = NoCrt) =>
            hsCrt'[c] = NoCrt
       /\ hsCrt[c] # "unread" => hsCrt'[c] = hsCrt[c]]_vars

\* A step of the accept loop g.
LoopMoves(g) == servePc'[g] # servePc[g]

\* A step of a connection handler (not the dispatch of a new one).
HandlerMoves == \E c \in Conns : hPc[c] # "idle" /\ hPc'[c] # hPc[c]

\* C8: while the context is not cancelled, accept errors, however many, leave
\* the loop running, and the connection of the next successful Accept is
\* handed to a handler; the loop ends only on an accept error with the context
\* cancelled, and never on a step of a connection handler.
C8_AcceptLoopResilient ==
  [][\A g \in Gens :
       /\ (LoopMoves(g) /\ servePc'[g] = "exited") =>
            servePc[g] = "accept" /\ ctxDone[g] /\ ~HandlerMoves
       /\ servePc'[g] # "panicked"
       /\ HandlerMoves => ~LoopMoves(g)
       /\ (servePc[g] = "accept" /\ LoopMoves(g) /\ ~ctxDone[g]) =>
            servePc'[g] = "loop"
       /\ (acceptErrs[g] > 0 /\ acceptErrs'[g] = 0) =>
            /\ servePc'[g] = "loop"
            /\ \E c \in Conns : hPc[c] = "idle" /\ hPc'[c] = "auth"]_vars

\* C8 happens: after as many accept errors in a row as the model counts, an
\* Accept succeeded, its connection is with a handler and the loop goes on.
C8_Witness ==
  /\ afterErrs = MaxAcceptErrs
  /\ \E g \in Gens : servePc[g] = "loop" /\ ~ctxDone[g]
  /\ \E c \in Conns : hPc[c] = "auth"

\* The step in which a Run call returns an error.
RunReturnsErr ==
  \/ runPc = "getSecret" /\ runPc' = "idle"
  \/ /\ runPc = "idle" /\ runPc' = "idle" /\ lastListen' = "fail"
     /\ <<lis, runLast, lastListen, lastLookup>>' # <<lis, runLast, lastListen, lastLookup>>

\* The step in which a Run call returns nil.
RunReturnsNil == runPc = "start" /\ runPc' = "idle"

\* C10: Run returns an error exactly when net.Listen failed, or TLS is
\* required and the secret lookup failed with an error other than NotFound;
\* a Run call that returns an error starts no accept loop; on NotFound Run
\* returns nil with no certificate installed and the accept loop started.
C10_RunOutcome ==
  /\ [](runPc = "idle" /\ runLast # "none" =>
          /\ runLast = "err" <=>
               (lastListen = "fail" \/ (isTLS /\ lastLookup = "error"))
          /\ (runLast = "ok" /\ lastLookup = "notFound") =>
               crt = NoCrt /\ tlsCfg = "set")
  /\ [][/\ RunReturnsErr =>
             runLast' = "err" /\ servePc' = servePc /\ cancelFn' = cancelFn
        /\ RunReturnsNil =>
             /\ runLast' = "ok"
             /\ \E g \in Gens : servePc[g] = "none" /\ servePc'[g] = "loop"
             /\ cancelFn' # 0]_vars

\* C10 happens: a Run call on a TLS service found no secret and returned nil.
C10_Witness ==
  /\ runPc = "idle" /\ runLast = "ok" /\ isTLS /\ lastLookup = "notFound"
  /\ \E g \in Gens : servePc[g] # "none"

\* The teardown of Close has been carried out and that call has returned.
CloseCompleted == TornDownAndReturned

\* An accept loop that is running.
LoopRunning(g) == servePc[g] \in {"loop", "accept"}

\* C11: once Close has completed, no step of Run, Close or
\* SetClusterCertificate opens a listening socket or starts an accept loop.
C11_ClosedIsTerminal ==
  [][CloseCompleted =>
       /\ lisOpen' \subseteq lisOpen
       /\ \A g \in Gens : LoopRunning(g)' => LoopRunning(g)]_vars

\* The enumeration of the registry by Close has been carried out and the
\* registry mutex released.
DrainDone == \E k \in tornDown : closePc[k] \in {"lis", "signal", "returned"}

\* C12: no session is inserted into the registry after the enumeration of
\* Close, and so every session in the registry from then on had close()
\* requested by the drain.
C12_NoEscape ==
  /\ [][DrainDone => dctxMap' \subseteq dctxMap]_vars
  /\ [](DrainDone => dctxMap \subseteq drained)

\* The step in which accept loop g hands a connection to a handler.
Dispatches(g) ==
  /\ servePc[g] = "accept" /\ servePc'[g] = "loop"
  /\ \E c \in Conns : hPc[c] = "idle" /\ hPc'[c] = "auth"

\* C13: once Close has cancelled the context of an accept loop, that loop
\* hands no connection to a handler.
C13_NoDispatchAfterCancel ==
  [][\A g \in Gens : ctxDone[g] => ~Dispatches(g)]_vars

\* Close has closed the listening socket.
ListenerClosedByClose ==
  \E k \in tornDown : closePc[k] \in {"signal", "returned"}

\* The step in which accept loop g returns.
LoopExits(g) == servePc[g] # "exited" /\ servePc'[g] = "exited"

\* C14: the accept loop returns only from an Accept that gave an error that
\* is no timeout, with the context cancelled; and once Close has closed the
\* listening socket a running accept loop eventually returns.
C14_LoopTermination ==
  /\ [][\A g \in Gens :
          LoopExits(g) =>
            servePc[g] = "accept" /\ ctxDone[g] /\ exitErr'[g] = "other"]_vars
  /\ \A g \in Gens :
       (LoopRunning(g) /\ ListenerClosedByClose) ~> (servePc[g] = "exited")

\* C14 happens: the loop went through accept errors, Close closed the
\* listener, and the loop has returned.
C14_Witness ==
  /\ ListenerClosedByClose
  /\ \E g \in Gens :
       servePc[g] = "exited" /\ exitErr[g] = "other" /\ acceptErrs[g] > 0

\* The handler of c is between its registry insert and its registry delete:
\* about to serve, serving, or back from serving.
InService(c) == hPc[c] \in {"serve", "unregister"}

\* The handler of c has returned, or c was never accepted.
Finished(c) == hPc[c] \in {"idle", "done"}

FailedBeforeRegistration(c) == hPc[c] = "done" /\ handshook[c] /\ ~served[c]

\* C16: a connection that fails at the downstream handshake or at the
\* upstream connect has its socket closed (and its protocol connection, once
\* created), no access-log entry, no registry entry and no serve loop.
C16_FailureBeforeRegistration ==
  /\ [](\A c \in Conns :
          FailedBeforeRegistration(c) =>
            /\ cClosed[c]
            /\ connected[c] => dsClosed[c]
            /\ accessLog[c] = <<>>
            /\ DctxId(c) \notin dctxMap
            /\ deferCloses[c] = 0)
  /\ [][\A c \in Conns :
          (hPc[c] \in {"handshake", "connect"} /\ hPc'[c] = "done") =>
            dctxMap' = dctxMap /\ ~served'[c]]_vars

\* C16 happens: one connection failed at the handshake and another at the
\* upstream connect.
C16_Witness ==
  \E c, d \in Conns :
    /\ FailedBeforeRegistration(c) /\ ~connected[c]
    /\ FailedBeforeRegistration(d) /\ connected[d]

\* The close() calls the drain of Close made on the session of c: the drain
\* runs in one Close call at most and ranges over the registry once.
DrainCloses(c) == IF DctxId(c) \in drained THEN 1 ELSE 0

\* Every close() call made on the session of c so far.
CloseCalls(c) == DrainCloses(c) + deferCloses[c]

\* C17: for every session that was registered, close() has been invoked
\* exactly once when its handler has returned, the drain's call and the
\* handler's deferred call both counted.
C17_ReleasedExactlyOnce ==
  \A c \in Conns : (served[c] /\ hPc[c] = "done") => CloseCalls(c) = 1

\* C17, amended: the handler of a registered session invokes close() exactly
\* once, as it returns; the drain of Close invokes it once more on a session
\* it finds in the registry, and on no session that was never registered.
C17_ReleasedOnceOrTwice ==
  /\ Cardinality(tornDown) <= 1
  /\ \A c \in Conns :
       /\ served[c] => deferCloses[c] = (IF hPc[c] = "done" THEN 1 ELSE 0)
       /\ ~served[c] => CloseCalls(c) = 0
       /\ CloseCalls(c) \in 0..2

\* C17 happens: one session was closed by the drain and again by its handler,
\* another by its handler alone.
C17_Witness ==
  \E c, d \in Conns :
    /\ served[c] /\ hPc[c] = "done" /\ CloseCalls(c) = 2
    /\ served[d] /\ hPc[d] = "done" /\ CloseCalls(d) = 1

\* C18: Close on a server whose Run was never called or returned an error
\* returns nil without a panic, sets the closed flag and closes the
\* completion channel once.
C18_CloseAlwaysSafe ==
  \A k \in Closers :
    /\ closePc[k] # "panicked"
    /\ (k \in tornDown /\ closePc[k] = "returned") => isClosed /\ doneCloses = 1

\* C20: when a Run call returns an error, the listener s.lis names is not an
\* open one.
C20_NoListenerLeak ==
  [][RunReturnsErr => lis' \notin lisOpen']_vars

\* Closer k is inside the teardown of Close, holding the closed-flag mutex.
InTeardown(k) == closePc[k] \in {"drain", "draining", "lis", "signal"}

\* The handler of c stands before the registry mutex.
WantsRegMu(c) == hPc[c] \in {"register", "unregister"}

\* The handler of c can take the registry mutex now.
GetsRegMu(c) == ENABLED Register(c) \/ ENABLED Unregister(c)

====
